---- MODULE Spec2Model ----
(***************************************************************************)
(* Shype (hidden-class) transition tree and prototype objects of the lisp  *)
(* interpreter built on cell-gc: lisp/src/protobj.rs.                      *)
(*                                                                         *)
(* The heap is an arena: a ShypeRef is an index into `shypes`, an          *)
(* ObjectRef an index into `objects`; NoRef models Option::None.  Index 1 *)
(* of `shypes` is the root shype every object is allocated at.            *)
(***************************************************************************)
EXTENDS Integers, Sequences, FiniteSets, TLC

\* shypes:  the Shype allocations of the heap, in allocation order.
\* objects: the Object allocations of the heap, in allocation order.
\* hist:    per object, the calls made on it so far (history, not heap).
\* panic:   TRUE once an assert! of protobj.rs has failed.
VARIABLES shypes, objects, hist, panic

\* The interned strings of lisp/src/value.rs, a second state machine.
\* arcs:         the Arc<String> allocations, in allocation order; the index
\*               is the identity Arc::ptr_eq compares, the element the text.
\* STRINGS:      the registry, the set of the arcs it holds.
\* GENSYM_COUNT: the counter gensym() draws its numbers from.
\* guard:        the thread holding the Mutex of STRINGS, NoThread if free.
\* threads:      per thread, the call it is in and its position in it.
\* calls:        the calls that have returned, in order of return (history).
VARIABLES arcs, STRINGS, GENSYM_COUNT, guard, threads, calls

\* The garbage-collected heap the interpreter allocates in, a third state
\* machine, with the pairs of tests/cycle.rs as its objects.
\* cells: the allocations of the heap: whether in use, and the two fields.
\* pins:  per allocation, the Refs the program holds to it.
\* swept: the allocations the collection just run has freed.
VARIABLES cells, pins, swept

protoVars == <<shypes, objects, hist, panic>>
stringVars == <<arcs, STRINGS, GENSYM_COUNT, guard, threads, calls>>
gcVars == <<cells, pins, swept>>
vars == <<protoVars, stringVars, gcVars>>

(* ---------------------------- bounds ----------------------------------- *)
\* The operations (new_object, set_property, set_prototype) of one run; a
\* new_object with a prototype counts for its allocation and its
\* set_prototype.
MaxOps == 7
\* The interned property names in use, 1..NumNames.
NumNames == 2
\* The values written are Bool(false) and Int(1)..Int(MaxInt).
MaxInt == 1
\* The threads calling into the string registry, 1..NumThreads.
NumThreads == 2
\* The calls (get, gensym, really_intern, is_interned) of one run.
MaxCalls == 4
\* The ordinary texts interned, 1..NumTexts.
NumTexts == 1
\* The operations of a run that also calls allocate, get_slot, set_slot,
\* add_child and the become_prototype_of of a shype directly.
MaxDirectOps == 3
\* The shypes of the heap up to which become_prototype_of is called directly.
MaxShypes == 4
\* The allocations the garbage-collected heap has room for.
MaxCells == 3
\* The Refs to one allocation held at a time.
MaxPins == 2

(* ---------------------------- values ----------------------------------- *)
NoRef == 0
RootRef == 1

\* Value::Bool(false), the result of get_property for a missing name.
BoolFalse == 0
\* Not a Value: get_property's loop over the proto chain never exits.
Diverges == -1

Names == 1..NumNames
Values == {BoolFalse} \cup (1..MaxInt)

(* ---------------------------- shypes ----------------------------------- *)
Shype(variant, name, slot, proto, target) ==
    [variant |-> variant, name |-> name, slot |-> slot, proto |-> proto,
     target |-> target,
     parent |-> NoRef, first_child |-> NoRef, next_sibling |-> NoRef]

new_root == Shype("Root", 0, 0, NoRef, NoRef)
\* Mutant: the slot recorded is one past the next free slot.
new_add_prop_OffByOne(name, slotno) == Shype("AddProperty", name, slotno + 1, NoRef, NoRef)

new_add_prop(name, slotno) == Shype("AddProperty", name, slotno, NoRef, NoRef)
new_set_proto(proto) == Shype("SetPrototype", 0, 0, proto, NoRef)
new_become_proto(target_shype) == Shype("BecomePrototype", 0, 0, NoRef, target_shype)

\* hs.alloc(shype): the new ShypeRef is the next arena index.
alloc(sh, shype) == Append(sh, shype)

\* ShypeParentIter: the shype itself, its parent, ... up to the root.
RECURSIVE root_path_iter(_, _)
root_path_iter(sh, s) ==
    IF s = NoRef THEN <<>> ELSE <<s>> \o root_path_iter(sh, sh[s].parent)

\* ShypeNextSiblingIter, started at a first_child.
RECURSIVE sibling_iter(_, _)
sibling_iter(sh, s) ==
    IF s = NoRef THEN <<>> ELSE <<s>> \o sibling_iter(sh, sh[s].next_sibling)

children_iter(sh, s) == sibling_iter(sh, sh[s].first_child)

\* The first shype of `iter` with the given variant, NoRef when none: the
\* loops of get_prototype, set_prototype and become_prototype_of all stop
\* (return or break) at the first shype of the variant they look for.
RECURSIVE first_of_variant(_, _, _)
first_of_variant(sh, iter, variant) ==
    IF iter = <<>> THEN NoRef
    ELSE IF sh[Head(iter)].variant = variant THEN Head(iter)
         ELSE first_of_variant(sh, Tail(iter), variant)

\* each_addprop with select_named_addprop: the first AddProperty shype of
\* the iteration whose name is `name`, NoRef when there is none.
RECURSIVE each_addprop(_, _, _)
each_addprop(sh, iter, name) ==
    IF iter = <<>> THEN NoRef
    ELSE IF sh[Head(iter)].variant = "AddProperty" /\ sh[Head(iter)].name = name
         THEN Head(iter)
         ELSE each_addprop(sh, Tail(iter), name)

lookup_root_path_addprop(sh, s, name) == each_addprop(sh, root_path_iter(sh, s), name)

\* Mutant: only the first child is looked at.
lookup_child_addprop_FirstOnly(sh, s, name) ==
    each_addprop(sh, IF sh[s].first_child = NoRef THEN <<>> ELSE <<sh[s].first_child>>,
                 name)

\* Mutant: the first AddProperty child is taken, whatever its name.
lookup_child_addprop_AnyName(sh, s, name) ==
    first_of_variant(sh, children_iter(sh, s), "AddProperty")

lookup_child_addprop(sh, s, name) == each_addprop(sh, children_iter(sh, s), name)

\* The two assertions of add_child.
add_child_ok(sh, child) == sh[child].parent = NoRef /\ sh[child].next_sibling = NoRef

\* Mutant: the next_sibling of the child is not set.
add_child_NoSibling(sh, s, child) ==
    [sh EXCEPT ![child].parent = s, ![s].first_child = child]

\* Mutant: the child is linked behind the last sibling.
add_child_Last(sh, s, child) ==
    LET ch == children_iter(sh, s)
    IN  IF ch = <<>>
        THEN [sh EXCEPT ![child].parent = s, ![s].first_child = child]
        ELSE [sh EXCEPT ![child].parent = s, ![ch[Len(ch)]].next_sibling = child]

add_child(sh, s, child) ==
    [sh EXCEPT ![child].parent = s,
               ![child].next_sibling = sh[s].first_child,
               ![s].first_child = child]

\* Mutant: the SetPrototype shype nearest the root decides.
Shype_get_prototype_Oldest(sh, s) ==
    LET path == root_path_iter(sh, s)
        sps == {i \in 1..Len(path) : sh[path[i]].variant = "SetPrototype"}
    IN  IF sps = {} THEN NoRef
        ELSE sh[path[CHOOSE i \in sps : \A j \in sps : j <= i]].proto

Shype_get_prototype(sh, s) ==
    LET anc == first_of_variant(sh, root_path_iter(sh, s), "SetPrototype")
    IN  IF anc = NoRef THEN NoRef ELSE sh[anc].proto

\* Mutant: a SetPrototype ancestor naming proto is reported as a change.
Shype_set_prototype_AdoptAncestor(sh, s, proto) ==
    LET anc == first_of_variant(sh, root_path_iter(sh, s), "SetPrototype")
        ch == first_of_variant(sh, children_iter(sh, s), "SetPrototype")
        shype == Len(sh) + 1
        sh1 == alloc(sh, new_set_proto(proto))
    IN  IF anc # NoRef /\ sh[anc].proto = proto
        THEN [shypes |-> sh, shype |-> anc, set |-> TRUE, ok |-> TRUE]
        ELSE IF ch # NoRef /\ sh[ch].proto = proto
        THEN [shypes |-> sh, shype |-> ch, set |-> TRUE, ok |-> TRUE]
        ELSE [shypes |-> add_child(sh1, s, shype), shype |-> shype, set |-> TRUE,
              ok |-> add_child_ok(sh1, shype)]

\* SpecificShypeView::set_prototype on shype s: (shype, set) and the arena
\* after the call.  ok is the conjunction of the assertions passed.
Shype_set_prototype(sh, s, proto) ==
    LET anc == first_of_variant(sh, root_path_iter(sh, s), "SetPrototype")
        ch == first_of_variant(sh, children_iter(sh, s), "SetPrototype")
        shype == Len(sh) + 1
        sh1 == alloc(sh, new_set_proto(proto))
    IN  IF anc # NoRef /\ sh[anc].proto = proto
        THEN [shypes |-> sh, shype |-> anc, set |-> FALSE, ok |-> TRUE]
        ELSE IF ch # NoRef /\ sh[ch].proto = proto
        THEN [shypes |-> sh, shype |-> ch, set |-> TRUE, ok |-> TRUE]
        ELSE [shypes |-> add_child(sh1, s, shype), shype |-> shype, set |-> TRUE,
              ok |-> add_child_ok(sh1, shype)]

\* SpecificShypeView::become_prototype_of on shype s.
Shype_become_prototype_of(sh, s, target_shype) ==
    LET anc == first_of_variant(sh, root_path_iter(sh, s), "BecomePrototype")
        ch == first_of_variant(sh, children_iter(sh, s), "BecomePrototype")
        shype == Len(sh) + 1
        sh1 == alloc(sh, new_become_proto(target_shype))
    IN  IF anc # NoRef /\ sh[anc].target = target_shype
        THEN [shypes |-> sh, shype |-> anc, set |-> FALSE, ok |-> TRUE]
        ELSE IF ch # NoRef /\ sh[ch].target = target_shype
        THEN [shypes |-> sh, shype |-> ch, set |-> TRUE, ok |-> TRUE]
        ELSE [shypes |-> add_child(sh1, s, shype), shype |-> shype, set |-> TRUE,
              ok |-> add_child_ok(sh1, shype)]

Shype_get_own_property(sh, s, name) == lookup_root_path_addprop(sh, s, name)

Shype_has_own_property(sh, s, name) == lookup_root_path_addprop(sh, s, name) # NoRef

RECURSIVE addprop_names(_, _)
addprop_names(sh, iter) ==
    IF iter = <<>> THEN <<>>
    ELSE IF sh[Head(iter)].variant = "AddProperty"
         THEN <<sh[Head(iter)].name>> \o addprop_names(sh, Tail(iter))
         ELSE addprop_names(sh, Tail(iter))

\* Mutant: the names are collected from the root to the shype.
Shype_own_property_names_RootFirst(sh, s) ==
    LET names == addprop_names(sh, root_path_iter(sh, s))
    IN  [i \in 1..Len(names) |-> names[Len(names) + 1 - i]]

Shype_own_property_names(sh, s) == addprop_names(sh, root_path_iter(sh, s))

has_ancestor_shype(sh, s, anc) ==
    \E i \in 1..Len(root_path_iter(sh, s)) : root_path_iter(sh, s)[i] = anc

(* ---------------------------- objects ---------------------------------- *)
Object(shype) == [shype |-> shype, prop_slots |-> <<>>]

num_slots(obj) == Len(obj.prop_slots)

\* get_slot / set_slot index from 0; their assertion is slotno < num_slots.
get_slot(obj, slotno) == obj.prop_slots[slotno + 1]

set_slot(obj, slotno, val) == [obj EXCEPT !.prop_slots[slotno + 1] = val]

\* Mutant: the value is put in front of the slots instead of behind them.
add_slot_Front(obj, val) == [obj EXCEPT !.prop_slots = <<val>> \o @]

\* add_slot pushes the value; what it returns is added_slot of the result.
add_slot(obj, val) == [obj EXCEPT !.prop_slots = Append(@, val)]

added_slot(obj) == num_slots(obj) - 1

set_shype(obj, shype) == [obj EXCEPT !.shype = shype]

\* Mutant: an existing property is looked for on the shype of o alone, not
\* on the shypes above it.
Shype_set_property_LeafOnly(sh, objs, o, name) ==
    LET s == objs[o].shype
        anc == each_addprop(sh, <<s>>, name)
        ch == lookup_child_addprop(sh, s, name)
        slot == num_slots(objs[o])
        shype == Len(sh) + 1
        sh1 == alloc(sh, new_add_prop(name, slot))
    IN  IF anc # NoRef
        THEN [shypes |-> sh, shype |-> anc, slot |-> sh[anc].slot, add |-> FALSE,
              ok |-> TRUE]
        ELSE IF ch # NoRef
        THEN [shypes |-> sh, shype |-> ch, slot |-> sh[ch].slot, add |-> TRUE,
              ok |-> sh[ch].slot = num_slots(objs[o])]
        ELSE [shypes |-> add_child(sh1, s, shype), shype |-> shype, slot |-> slot,
              add |-> TRUE, ok |-> add_child_ok(sh1, shype)]

\* SpecificShypeView::set_property on the shype of object o: (shype, slot,
\* add) and the arena after the call.
Shype_set_property(sh, objs, o, name) ==
    LET s == objs[o].shype
        anc == lookup_root_path_addprop(sh, s, name)
        ch == lookup_child_addprop(sh, s, name)
        slot == num_slots(objs[o])
        shype == Len(sh) + 1
        sh1 == alloc(sh, new_add_prop(name, slot))
    IN  IF anc # NoRef
        THEN [shypes |-> sh, shype |-> anc, slot |-> sh[anc].slot, add |-> FALSE,
              ok |-> TRUE]
        ELSE IF ch # NoRef
        THEN [shypes |-> sh, shype |-> ch, slot |-> sh[ch].slot, add |-> TRUE,
              ok |-> sh[ch].slot = num_slots(objs[o])]
        ELSE [shypes |-> add_child(sh1, s, shype), shype |-> shype, slot |-> slot,
              add |-> TRUE, ok |-> add_child_ok(sh1, shype)]

Object_get_prototype(sh, objs, o) == Shype_get_prototype(sh, objs[o].shype)

\* SpecificObjectView::get_property: the loop over proto_chain_iter, which
\* ObjectProtoIter advances with get_prototype.  The loop reads and never
\* writes, so once it has visited more objects than the heap holds it is
\* on a cycle of the proto chain and never exits: fuel counts the visits
\* left before that is certain.
RECURSIVE proto_chain_lookup(_, _, _, _, _)
proto_chain_lookup(sh, objs, mb_object, name, fuel) ==
    IF mb_object = NoRef THEN BoolFalse
    ELSE IF fuel = 0 THEN Diverges
    ELSE LET shype == Shype_get_own_property(sh, objs[mb_object].shype, name)
         IN  IF shype # NoRef
             THEN get_slot(objs[mb_object], sh[shype].slot)
             ELSE proto_chain_lookup(sh, objs,
                      Object_get_prototype(sh, objs, mb_object), name, fuel - 1)

\* Mutant: only the object itself is asked, never its proto chain.
Object_get_property_OwnOnly(sh, objs, o, name) ==
    LET shype == Shype_get_own_property(sh, objs[o].shype, name)
    IN  IF shype # NoRef THEN get_slot(objs[o], sh[shype].slot) ELSE BoolFalse

Object_get_property(sh, objs, o, name) ==
    proto_chain_lookup(sh, objs, o, name, Len(objs))

Object_has_own_property(sh, objs, o, name) ==
    Shype_has_own_property(sh, objs[o].shype, name)

Object_own_property_names(sh, objs, o) ==
    Shype_own_property_names(sh, objs[o].shype)

\* Mutant: a property that is added moves the object and pushes no slot.
Object_set_property_NoSlot(sh, objs, o, name, value) ==
    LET r == Shype_set_property(sh, objs, o, name)
        obj == objs[o]
    IN  IF r.add
        THEN [shypes |-> r.shypes,
              objects |-> [objs EXCEPT ![o] = set_shype(obj, r.shype)],
              ok |-> /\ r.ok
                     /\ r.shypes[r.shype].parent = obj.shype
                     /\ r.slot = num_slots(obj)]
        ELSE [shypes |-> r.shypes,
              objects |-> IF r.slot < num_slots(obj)
                          THEN [objs EXCEPT ![o] = set_slot(obj, r.slot, value)]
                          ELSE objs,
              ok |-> /\ r.ok
                     /\ has_ancestor_shype(r.shypes, obj.shype, r.shype)
                     /\ r.slot < num_slots(obj)]

\* SpecificObjectView::set_property: the heap (arena and objects) after
\* the call; ok is FALSE when an assertion failed on the way.
Object_set_property(sh, objs, o, name, value) ==
    LET r == Shype_set_property(sh, objs, o, name)
        obj == objs[o]
    IN  IF r.add
        THEN [shypes |-> r.shypes,
              objects |-> [objs EXCEPT ![o] = set_shype(add_slot(obj, value), r.shype)],
              ok |-> /\ r.ok
                     /\ r.shypes[r.shype].parent = obj.shype
                     /\ r.slot = num_slots(obj)
                     /\ added_slot(add_slot(obj, value)) = r.slot]
        ELSE [shypes |-> r.shypes,
              objects |-> IF r.slot < num_slots(obj)
                          THEN [objs EXCEPT ![o] = set_slot(obj, r.slot, value)]
                          ELSE objs,
              ok |-> /\ r.ok
                     /\ has_ancestor_shype(r.shypes, obj.shype, r.shype)
                     /\ r.slot < num_slots(obj)]

\* Mutant: the prototype is replaced by a fresh Object at its new shype.
Object_become_prototype_of_Fresh(sh, objs, o, target_shype) ==
    LET r == Shype_become_prototype_of(sh, objs[o].shype, target_shype)
    IN  IF r.set
        THEN [shypes |-> r.shypes,
              objects |-> [objs EXCEPT ![o] = Object(r.shype)],
              ok |-> r.ok /\ r.shypes[r.shype].parent = objs[o].shype]
        ELSE [shypes |-> r.shypes, objects |-> objs,
              ok |-> r.ok /\ has_ancestor_shype(r.shypes, objs[o].shype, r.shype)]

\* SpecificObjectView::become_prototype_of.
Object_become_prototype_of(sh, objs, o, target_shype) ==
    LET r == Shype_become_prototype_of(sh, objs[o].shype, target_shype)
    IN  IF r.set
        THEN [shypes |-> r.shypes,
              objects |-> [objs EXCEPT ![o] = set_shype(@, r.shype)],
              ok |-> r.ok /\ r.shypes[r.shype].parent = objs[o].shype]
        ELSE [shypes |-> r.shypes, objects |-> objs,
              ok |-> r.ok /\ has_ancestor_shype(r.shypes, objs[o].shype, r.shype)]

\* Mutant: the SetPrototype shype is the target also when o keeps its shype.
Object_set_prototype_SetProtoTarget(sh, objs, o, proto) ==
    LET r == Shype_set_prototype(sh, objs[o].shype, proto)
        b == Object_become_prototype_of(r.shypes, objs, proto, r.shype)
    IN  [shypes |-> b.shypes,
         objects |-> IF r.set
                     THEN [b.objects EXCEPT ![o] = set_shype(@, r.shype)]
                     ELSE b.objects,
         ok |-> r.ok /\ b.ok]

\* SpecificObjectView::set_prototype: the shype of o is decided first, then
\* proto is moved to a BecomePrototype shype, then o adopts its new shype.
Object_set_prototype(sh, objs, o, proto) ==
    LET r == Shype_set_prototype(sh, objs[o].shype, proto)
        target_shype == IF r.set THEN r.shype ELSE objs[o].shype
        b == Object_become_prototype_of(r.shypes, objs, proto, target_shype)
    IN  [shypes |-> b.shypes,
         objects |-> IF r.set
                     THEN [b.objects EXCEPT ![o] = set_shype(@, r.shype)]
                     ELSE b.objects,
         ok |-> r.ok /\ b.ok]

\* ObjectRef::allocate (through SpecificShypeView::new_object) at the root
\* shype, followed by set_prototype when a prototype is given.
Shype_new_object(sh, objs, s, mb_proto) ==
    LET objs1 == Append(objs, Object(s))
        o == Len(objs) + 1
    IN  IF sh[s].variant # "Root"
        THEN [shypes |-> sh, objects |-> objs, ok |-> FALSE]
        ELSE IF mb_proto = NoRef
        THEN [shypes |-> sh, objects |-> objs1, ok |-> TRUE]
        ELSE Object_set_prototype(sh, objs1, o, mb_proto)

(* ---------------------------- history ---------------------------------- *)
\* hist[o] is the sequence of set_property / set_prototype calls made on
\* object o so far (the set_prototype of new_object included), each with
\* its name or its prototype; the value written is not part of it.
PropCall(name) == [op |-> "set_property", name |-> name, proto |-> NoRef]
ProtoCall(proto) == [op |-> "set_prototype", name |-> 0, proto |-> proto]

RECURSIVE SumLen(_)
SumLen(h) == IF h = <<>> THEN 0 ELSE Len(Head(h)) + SumLen(Tail(h))

\* Operations so far: every object was allocated by one new_object.
NumOps == Len(objects) + SumLen(hist)

(* ---------------------------- state ------------------------------------ *)
\* struct Shype: the variant with its payload, and the three links.
ShypeType ==
    [variant : {"Root", "AddProperty", "SetPrototype", "BecomePrototype"},
     name : {0} \cup Names, slot : Nat, proto : Nat, target : Nat,
     parent : Nat, first_child : Nat, next_sibling : Nat]

\* struct Object: a ShypeRef and the Vec of slot values.
ObjectType == [shype : Nat, prop_slots : Seq(Values)]

TypeOK ==
    /\ \A s \in 1..Len(shypes) :
           /\ shypes[s] \in ShypeType
           /\ {shypes[s].target, shypes[s].parent, shypes[s].first_child,
               shypes[s].next_sibling} \subseteq 0..Len(shypes)
           /\ shypes[s].proto \in 0..Len(objects)
    /\ \A o \in 1..Len(objects) :
           /\ objects[o] \in ObjectType
           /\ objects[o].shype \in 1..Len(shypes)
    /\ Len(hist) = Len(objects)
    /\ panic \in BOOLEAN

(* ---------------------- interned strings ----------------------------- *)
\* A text is a sequence of tokens, so that a prefix can be tested.  An
\* InternedString is a reference to an Arc<String>: an index into `arcs`.
NoArc == 0
NoThread == 0
Threads == 1..NumThreads

GensymPrefix == "#<gensym"

\* format!("#<gensym{}>", n)
gensym_text(n) == <<GensymPrefix, n, ">">>

\* self.0.starts_with("#<gensym")
starts_with_gensym(text) == text # <<>> /\ Head(text) = GensymPrefix

\* The texts handed to get(): the ordinary ones, and one that reads like
\* the text of the first gensym.
Texts == {<<"sym", k>> : k \in 1..NumTexts} \cup {gensym_text(0)}

\* Arc::new(text): the new identity is the next arena index.
Arc_new(a, text) == Append(a, text)

\* HashSet<InternedStringByValue>::get(s): the entry with that content.
HashSet_get(a, set, text) ==
    IF \E x \in set : a[x] = text
    THEN CHOOSE x \in set : a[x] = text
    ELSE NoArc

\* HashSet::insert: a value equal (by content) to an entry is not added.
HashSet_insert(a, set, x) ==
    IF HashSet_get(a, set, a[x]) # NoArc THEN set ELSE set \cup {x}

\* Mutant: the lock is handed out while another thread holds it.
Mutex_lock_Shared(g) == TRUE

\* Mutex::lock() returns only when no thread holds the guard.
Mutex_lock(g) == g = NoThread

\* InternedString::gensym: the handle and the state it leaves.
gensym(a, count) ==
    LET n == count
    IN  [arcs |-> Arc_new(a, gensym_text(n)), count |-> count + 1,
         ret |-> Len(a) + 1]

\* InternedString::get, after the lookup missed: allocate, insert, return.
get_insert(a, set, text) ==
    LET a1 == Arc_new(a, text)
        s == Len(a) + 1
    IN  [arcs |-> a1, strings |-> HashSet_insert(a1, set, s), ret |-> s]

\* Mutant: the handle itself is entered into the registry.
really_intern_insert_Self(a, set, self) ==
    [arcs |-> a, strings |-> HashSet_insert(a, set, self), ret |-> self]

\* InternedString::really_intern, after the lookup missed: a copy of the
\* text is allocated and inserted, and self is returned.
really_intern_insert(a, set, self) ==
    LET a1 == Arc_new(a, a[self])
        new_arc == Len(a) + 1
    IN  [arcs |-> a1, strings |-> HashSet_insert(a1, set, new_arc), ret |-> self]

\* InternedString::is_interned, under the lock.
is_interned(a, set, self) ==
    LET interned == HashSet_get(a, set, a[self])
    IN  IF interned = NoArc THEN FALSE ELSE interned = self

\* InternedString::is_gensym
is_gensym(a, set, self) == ~is_interned(a, set, self)

\* InternedString::as_str
as_str(a, self) == a[self]

\* A thread outside any call.
Idle == [pc |-> "idle", op |-> "", text |-> <<>>, self |-> NoArc]

\* The record of a returned call: `text` is the &str argument of get,
\* `self` the handle argument, `ret` the handle or the bool returned.
Call(t, op, text, self, ret) ==
    [thread |-> t, op |-> op, text |-> text, self |-> self, ret |-> ret]

\* The calls begun so far.
NumCalls == Len(calls) + Cardinality({t \in Threads : threads[t].pc # "idle"})

(* ------------------- the garbage-collected heap ------------------------ *)
\* A field holds Value::Null or Value::Pair(ref), ref the index of a cell.
Null == 0
CellRefs == 1..MaxCells

\* An allocation not in use.
FreeCell == [allocated |-> FALSE, head |-> Null, tail |-> Null]

\* Pair { head, tail } in the heap.
Pair(head, tail) == [allocated |-> TRUE, head |-> head, tail |-> tail]

\* The allocations a Ref of the program points at.
Pinned(pn) == {c \in CellRefs : pn[c] > 0}

\* Mutant: the fields of the allocations the Refs point at are not traced.
mark_PinnedOnly(cs, todo, marked) == todo

\* Marking: the allocations reached from `todo` through head and tail; an
\* allocation already marked is not visited again.
RECURSIVE mark(_, _, _)
mark(cs, todo, marked) ==
    IF todo = {} THEN marked
    ELSE LET c == CHOOSE x \in todo : TRUE
             fields == {cs[c].head, cs[c].tail} \ {Null}
         IN  mark(cs, (todo \cup fields) \ (marked \cup {c}), marked \cup {c})

\* Sweeping: every allocation not marked is freed.
sweep(cs, marked) == [c \in CellRefs |-> IF c \in marked THEN cs[c] ELSE FreeCell]

\* hs.force_gc(): mark from the Refs, then sweep.
force_gc(cs, pn) == sweep(cs, mark(cs, Pinned(pn), {}))

(* ---------------------------- actions ---------------------------------- *)
Init ==
    /\ shypes = <<new_root>>
    /\ objects = <<>>
    /\ hist = <<>>
    /\ panic = FALSE
    /\ arcs = <<>>
    /\ STRINGS = {}
    /\ GENSYM_COUNT = 0
    /\ guard = NoThread
    /\ threads = [t \in Threads |-> Idle]
    /\ calls = <<>>
    /\ cells = [c \in CellRefs |-> FreeCell]
    /\ pins = [c \in CellRefs |-> 0]
    /\ swept = {}

Commit(r) ==
    /\ shypes' = r.shypes
    /\ objects' = IF r.ok THEN r.objects ELSE objects
    /\ panic' = ~r.ok
    /\ UNCHANGED <<stringVars, gcVars>>

NewObject(mb_proto) ==
    /\ ~panic
    /\ NumOps + (IF mb_proto = NoRef THEN 1 ELSE 2) <= MaxOps
    /\ Commit(Shype_new_object(shypes, objects, RootRef, mb_proto))
    /\ hist' = Append(hist, IF mb_proto = NoRef THEN <<>> ELSE <<ProtoCall(mb_proto)>>)

SetProperty(o, name, value) ==
    /\ ~panic
    /\ NumOps < MaxOps
    /\ Commit(Object_set_property(shypes, objects, o, name, value))
    /\ hist' = [hist EXCEPT ![o] = Append(@, PropCall(name))]

SetPrototype(o, proto) ==
    /\ ~panic
    /\ NumOps < MaxOps
    /\ Commit(Object_set_prototype(shypes, objects, o, proto))
    /\ hist' = [hist EXCEPT ![o] = Append(@, ProtoCall(proto))]

ObjectRefs == 1..Len(objects)

Next ==
    \/ \E mb_proto \in {NoRef} \cup ObjectRefs : NewObject(mb_proto)
    \/ \E o \in ObjectRefs, name \in Names, value \in Values : SetProperty(o, name, value)
    \/ \E o \in ObjectRefs, proto \in ObjectRefs : SetPrototype(o, proto)

Spec == Init /\ [][Next]_vars

(* ---------------------- reading the history ---------------------------- *)
Range(seq) == {seq[i] : i \in 1..Len(seq)}

Front(seq) == SubSeq(seq, 1, Len(seq) - 1)

\* The proto of the last set_prototype call of a history, NoRef if none.
RECURSIVE LastProto(_)
LastProto(h) ==
    IF h = <<>> THEN NoRef
    ELSE IF h[Len(h)].op = "set_prototype" THEN h[Len(h)].proto
         ELSE LastProto(Front(h))

\* The distinct names of the set_property calls of a history, ordered by
\* the first call of each name, the most recent first.
RECURSIVE FirstSetOrder(_)
FirstSetOrder(h) ==
    IF h = <<>> THEN <<>>
    ELSE LET rest == FirstSetOrder(Front(h))
             c == h[Len(h)]
         IN  IF c.op = "set_property" /\ c.name \notin Range(rest)
             THEN <<c.name>> \o rest
             ELSE rest

WasSet(o, name) == PropCall(name) \in Range(hist[o])

\* The step is a set_property call of name on object o: no other step adds
\* that call to the history of o.
IsSetProperty(o, name) == hist'[o] = Append(hist[o], PropCall(name))

\* Some set_prototype call so far named object o as the prototype.
UsedAsProto(o) == \E o2 \in ObjectRefs : ProtoCall(o) \in Range(hist[o2])

ShypeOf(o) == objects[o].shype

GetProperty(o, name) == Object_get_property(shypes, objects, o, name)

GetPrototype(o) == Object_get_prototype(shypes, objects, o)

HasOwnProperty(o, name) == Object_has_own_property(shypes, objects, o, name)

OwnPropertyNames(o) == Object_own_property_names(shypes, objects, o)

(* ------------------------------ C1 ------------------------------------- *)
\* C1: two objects that received the same ordered sequence of
\* set_property(name, _) and set_prototype(proto) calls are at the same
\* shype.  Stated here for the objects no set_prototype call has named as
\* its prototype: being named moves an object to a BecomePrototype shype,
\* which the call sequence of the object itself does not record.
C1_Convergence ==
    \A o1, o2 \in ObjectRefs :
        (hist[o1] = hist[o2] /\ ~UsedAsProto(o1) /\ ~UsedAsProto(o2))
            => ShypeOf(o1) = ShypeOf(o2)

(* ------------------------------ C2 ------------------------------------- *)
\* The AddProperty shypes of a root path, leaf first.
RECURSIVE addprop_shypes(_, _)
addprop_shypes(sh, iter) ==
    IF iter = <<>> THEN <<>>
    ELSE IF sh[Head(iter)].variant = "AddProperty"
         THEN <<Head(iter)>> \o addprop_shypes(sh, Tail(iter))
         ELSE addprop_shypes(sh, Tail(iter))

\* C2: the slot count of every object is the number of AddProperty shypes
\* on the root path of its shype, and the k-th of them counted from the
\* root (from 0) carries slot k.
C2_SlotLayout ==
    \A o \in ObjectRefs :
        LET aps == addprop_shypes(shypes, root_path_iter(shypes, ShypeOf(o)))
        IN  /\ num_slots(objects[o]) = Len(aps)
            /\ \A i \in 1..Len(aps) : shypes[aps[i]].slot = Len(aps) - i

C2_Witness ==
    \E o \in ObjectRefs :
        /\ num_slots(objects[o]) = 2
        /\ GetPrototype(o) # NoRef
        /\ UsedAsProto(o)

(* ------------------------------ C3 ------------------------------------- *)
\* C3: a set_property(o, name, v) that returns makes get_property(o, name)
\* return v, and no step other than a set_property of that name on o
\* changes what get_property(o, name) returns once the name was set.
C3_ReadYourWrite ==
    [][/\ \A o \in ObjectRefs, name \in Names, v \in Values :
              (IsSetProperty(o, name) /\ SetProperty(o, name, v) /\ ~panic')
                  => Object_get_property(shypes', objects', o, name) = v
       /\ \A o \in ObjectRefs, name \in Names :
              (WasSet(o, name) /\ ~IsSetProperty(o, name))
                  => Object_get_property(shypes', objects', o, name)
                         = GetProperty(o, name)]_vars

\* A value written first and still read after a set_property of another
\* name, a set_prototype on the object and its use as a prototype.
C3_Witness ==
    \E o \in ObjectRefs, name \in Names :
        /\ Len(hist[o]) >= 3
        /\ hist[o][1] = PropCall(name)
        /\ \A i \in 2..Len(hist[o]) : hist[o][i] # PropCall(name)
        /\ \E i \in 2..Len(hist[o]) : hist[o][i].op = "set_property"
        /\ \E i \in 2..Len(hist[o]) : hist[o][i].op = "set_prototype"
        /\ UsedAsProto(o)
        /\ GetProperty(o, name) = 1
        /\ \E other \in Names : HasOwnProperty(o, other) /\ GetProperty(o, other) = BoolFalse

(* ------------------------------ C4 ------------------------------------- *)
\* The first n objects of o, get_prototype(o), get_prototype(get_prototype(o)),
\* ...; shorter when the sequence ends before.
RECURSIVE ProtoSeq(_, _)
ProtoSeq(o, n) ==
    IF o = NoRef \/ n = 0 THEN <<>>
    ELSE <<o>> \o ProtoSeq(GetPrototype(o), n - 1)

\* The value object o holds for its own property name.
OwnValue(o, name) ==
    get_slot(objects[o], shypes[Shype_get_own_property(shypes, ShypeOf(o), name)].slot)

\* C4: get_property(A, name) is the value held by the first object of the
\* sequence A, get_prototype(A), ... that has name as an own property; it is
\* Bool(false) when the sequence is finite and no object of it has name.
\* (A sequence longer than the number of objects repeats an object, so its
\* first Len(objects) members are all its members.)
C4_Fallthrough ==
    \A A \in ObjectRefs :
        LET longer == ProtoSeq(A, Len(objects) + 1)
            finite == Len(longer) <= Len(objects)
            chain == SubSeq(longer, 1, IF finite THEN Len(longer) ELSE Len(objects))
        IN  \A name \in Names :
                LET owners == {i \in 1..Len(chain) : HasOwnProperty(chain[i], name)}
                    first == CHOOSE i \in owners : \A j \in owners : i <= j
                IN  /\ owners # {} => GetProperty(A, name) = OwnValue(chain[first], name)
                    /\ (owners = {} /\ finite) => GetProperty(A, name) = BoolFalse

\* A reads an inherited value through B from C, which B does not have, and
\* its own value shadows another that B holds.
C4_Witness ==
    \E A, B, C \in ObjectRefs, name, other \in Names :
        /\ A # B /\ B # C /\ A # C /\ name # other
        /\ GetPrototype(A) = B /\ GetPrototype(B) = C /\ GetPrototype(C) = NoRef
        /\ ~HasOwnProperty(A, name) /\ ~HasOwnProperty(B, name)
        /\ HasOwnProperty(C, name) /\ OwnValue(C, name) = 1
        /\ GetProperty(A, name) = 1
        /\ ~HasOwnProperty(C, other)
        /\ GetProperty(C, other) = BoolFalse

(* ------------------------------ C5 ------------------------------------- *)
\* C5: get_property returns, a value or Bool(false), for every object and
\* every name.
C5_Terminates ==
    \A o \in ObjectRefs, name \in Names : GetProperty(o, name) # Diverges

(* ------------------------------ C6 ------------------------------------- *)
\* C6: get_prototype(o) is the proto of the most recent set_prototype call
\* on o, none when there was no such call.
C6_Lineage ==
    \A o \in ObjectRefs : GetPrototype(o) = LastProto(hist[o])

\* o was given P1, then a property, then P2, while o2 stays at the shype o
\* had with P1.
C6_Witness ==
    \E o, o2, P1, P2 \in ObjectRefs, name \in Names :
        /\ o # o2 /\ P1 # P2
        /\ hist[o] = <<ProtoCall(P1), PropCall(name), ProtoCall(P2)>>
        /\ hist[o2] = <<ProtoCall(P1)>>
        /\ GetPrototype(o) = P2
        /\ GetPrototype(o2) = P1
        /\ has_ancestor_shype(shypes, ShypeOf(o), ShypeOf(o2))

(* ------------------------------ C7 ------------------------------------- *)
\* C7: set_property(o, name, v) with name already an own property of o
\* leaves the arena of shypes, the shype and the slot count of o, every
\* other slot of o and every other object as they were, and stores v in
\* the slot of name.
C7_Idempotence ==
    [][\A o \in ObjectRefs, name \in Names, v \in Values :
          (IsSetProperty(o, name) /\ SetProperty(o, name, v) /\ HasOwnProperty(o, name))
              => LET slot == shypes[Shype_get_own_property(shypes, ShypeOf(o), name)].slot
                 IN  /\ ~panic'
                     /\ shypes' = shypes
                     /\ objects'[o].shype = ShypeOf(o)
                     /\ num_slots(objects'[o]) = num_slots(objects[o])
                     /\ get_slot(objects'[o], slot) = v
                     /\ \A k \in 0..(num_slots(objects[o]) - 1) :
                            k # slot => get_slot(objects'[o], k) = get_slot(objects[o], k)
                     /\ \A o2 \in ObjectRefs : o2 # o => objects'[o2] = objects[o2]]_vars

\* The first of two properties, below a later shype, was set again to a
\* new value.
C7_Witness ==
    \E o \in ObjectRefs, name, other \in Names :
        /\ name # other
        /\ hist[o] = <<PropCall(name), PropCall(other), ProtoCall(o), PropCall(name)>>
        /\ objects[o].prop_slots = <<1, BoolFalse>>

(* ------------------------------ C8 ------------------------------------- *)
\* The AddProperty children of shype s that carry name.
AddPropChildren(sh, s, name) ==
    {c \in 1..Len(sh) : sh[c].parent = s /\ sh[c].variant = "AddProperty"
                           /\ sh[c].name = name}

\* C8: a set_property(o, name, _) with name new to o moves o to the
\* AddProperty(name) child of its shype, creating that child only when the
\* shype has none (so that a shype never has two AddProperty children of
\* one name), and changes the slots of no other object.
C8_BranchReuse ==
    [][\A o \in ObjectRefs, name \in Names, v \in Values :
          (IsSetProperty(o, name) /\ SetProperty(o, name, v) /\ ~HasOwnProperty(o, name))
              => /\ ~panic'
                 /\ objects'[o].shype \in AddPropChildren(shypes', ShypeOf(o), name)
                 /\ AddPropChildren(shypes, ShypeOf(o), name) # {} => shypes' = shypes
                 /\ Cardinality(AddPropChildren(shypes', ShypeOf(o), name)) = 1
                 /\ objects'[o].prop_slots = Append(objects[o].prop_slots, v)
                 /\ \A o2 \in ObjectRefs : o2 # o => objects'[o2] = objects[o2]]_vars

\* Two objects took the same new name from the same shype one after the
\* other, with other children linked in between, and hold different values.
C8_Witness ==
    \E o1, o2 \in ObjectRefs, name \in Names :
        /\ o1 # o2
        /\ hist[o1] = <<PropCall(name)>> /\ hist[o2] = <<PropCall(name)>>
        /\ ShypeOf(o1) = ShypeOf(o2)
        /\ shypes[ShypeOf(o1)].variant = "AddProperty"
        /\ objects[o1].prop_slots # objects[o2].prop_slots
        /\ shypes[shypes[ShypeOf(o1)].parent].first_child # ShypeOf(o1)

(* ------------------------------ C9 ------------------------------------- *)
\* C9: own_property_names(o) is the sequence of the distinct names given to
\* set_property on o, each once, the name first set last coming first.
C9_OwnPropertyNames ==
    \A o \in ObjectRefs : OwnPropertyNames(o) = FirstSetOrder(hist[o])

C9_Witness ==
    \E o \in ObjectRefs, name, other \in Names :
        /\ name # other
        /\ hist[o] = <<PropCall(name), ProtoCall(o), PropCall(other), PropCall(name)>>
        /\ OwnPropertyNames(o) = <<other, name>>

(* ------------------------------ C10 ------------------------------------ *)
\* The slot of each own property name, as the calls made on an object fix
\* it: the names in the order of their first set_property take the slots
\* 0, 1, ...
SlotByHistory(h, name) ==
    LET order == FirstSetOrder(h)
    IN  Len(order) - (CHOOSE i \in 1..Len(order) : order[i] = name)

\* C10: two objects at the same shype were given the same names in the same
\* order of first insertion (so that a different order ends at a different
\* shype), hold each name in the same slot, and were last given the same
\* prototype.
C10_OrderSensitivity ==
    \A o1, o2 \in ObjectRefs :
        ShypeOf(o1) = ShypeOf(o2)
            => /\ FirstSetOrder(hist[o1]) = FirstSetOrder(hist[o2])
               /\ LastProto(hist[o1]) = LastProto(hist[o2])
               /\ \A name \in Range(FirstSetOrder(hist[o1])) :
                      /\ HasOwnProperty(o2, name)
                      /\ shypes[Shype_get_own_property(shypes, ShypeOf(o2), name)].slot
                             = SlotByHistory(hist[o1], name)

\* The same two names in both orders: two shypes.
C10_Witness ==
    \E o1, o2 \in ObjectRefs, x, y \in Names :
        /\ x # y
        /\ hist[o1] = <<PropCall(x), PropCall(y)>>
        /\ hist[o2] = <<PropCall(y), PropCall(x)>>
        /\ ShypeOf(o1) # ShypeOf(o2)
        /\ OwnPropertyNames(o1) = <<y, x>>
        /\ OwnPropertyNames(o2) = <<x, y>>

(* ------------------- interned strings: actions ------------------------- *)
\* The handles a caller can hold: those some call has returned.
Handles ==
    {calls[i].ret : i \in {j \in 1..Len(calls) : calls[j].op # "is_interned"}}

\* The call of thread t returns ret; a MutexGuard it holds is dropped by
\* the action that returns.
Return(t, ret) ==
    /\ calls' = Append(calls, Call(t, threads[t].op, threads[t].text, threads[t].self, ret))
    /\ threads' = [threads EXCEPT ![t] = Idle]

Begin(t, op, text, self) ==
    /\ threads[t].pc = "idle"
    /\ NumCalls < MaxCalls
    /\ threads' = [threads EXCEPT ![t] = [pc |-> "lock", op |-> op, text |-> text, self |-> self]]
    /\ UNCHANGED <<arcs, STRINGS, GENSYM_COUNT, guard, calls>>

\* gensym(): fetch_add and the allocation of the handle; no lock is taken.
Gensym(t) ==
    /\ threads[t].pc = "idle"
    /\ NumCalls < MaxCalls
    /\ LET r == gensym(arcs, GENSYM_COUNT)
       IN  /\ arcs' = r.arcs
           /\ GENSYM_COUNT' = r.count
           /\ calls' = Append(calls, Call(t, "gensym", <<>>, NoArc, r.ret))
    /\ UNCHANGED <<STRINGS, guard, threads, protoVars, gcVars>>

\* get(s) is entered.
Get(t, text) ==
    /\ Begin(t, "get", text, NoArc)
    /\ UNCHANGED <<protoVars, gcVars>>

\* really_intern(self) is entered; a text that does not start with the
\* gensym prefix returns self at once.
ReallyIntern(t, self) ==
    /\ threads[t].pc = "idle"
    /\ NumCalls < MaxCalls
    /\ IF starts_with_gensym(arcs[self])
       THEN /\ threads' = [threads EXCEPT ![t] = [pc |-> "lock", op |-> "really_intern", text |-> <<>>, self |-> self]]
            /\ UNCHANGED calls
       ELSE /\ calls' = Append(calls, Call(t, "really_intern", <<>>, self, self))
            /\ UNCHANGED threads
    /\ UNCHANGED <<arcs, STRINGS, GENSYM_COUNT, guard, protoVars, gcVars>>

\* is_interned(self) is entered.
IsInterned(t, self) ==
    /\ Begin(t, "is_interned", <<>>, self)
    /\ UNCHANGED <<protoVars, gcVars>>

\* STRINGS.lock().unwrap()
Lock(t) ==
    /\ threads[t].pc = "lock"
    /\ Mutex_lock(guard)
    /\ guard' = t
    /\ threads' = [threads EXCEPT ![t].pc = "lookup"]
    /\ UNCHANGED <<arcs, STRINGS, GENSYM_COUNT, calls, protoVars, gcVars>>

\* get: guard.get(s), and the return of the entry found.
GetLookup(t) ==
    /\ threads[t].pc = "lookup"
    /\ threads[t].op = "get"
    /\ LET x == HashSet_get(arcs, STRINGS, threads[t].text)
       IN  IF x # NoArc
           THEN Return(t, x) /\ guard' = NoThread
           ELSE /\ threads' = [threads EXCEPT ![t].pc = "insert"]
                /\ UNCHANGED <<guard, calls>>
    /\ UNCHANGED <<arcs, STRINGS, GENSYM_COUNT, protoVars, gcVars>>

\* get: Arc::new, guard.insert, and the return of the new handle.
GetInsert(t) ==
    /\ threads[t].pc = "insert"
    /\ threads[t].op = "get"
    /\ LET r == get_insert(arcs, STRINGS, threads[t].text)
       IN  /\ arcs' = r.arcs
           /\ STRINGS' = r.strings
           /\ Return(t, r.ret)
    /\ guard' = NoThread
    /\ UNCHANGED <<GENSYM_COUNT, protoVars, gcVars>>

\* really_intern: guard.get(s), and the return of the entry found.
ReallyInternLookup(t) ==
    /\ threads[t].pc = "lookup"
    /\ threads[t].op = "really_intern"
    /\ LET interned == HashSet_get(arcs, STRINGS, arcs[threads[t].self])
       IN  IF interned # NoArc
           THEN Return(t, interned) /\ guard' = NoThread
           ELSE /\ threads' = [threads EXCEPT ![t].pc = "insert"]
                /\ UNCHANGED <<guard, calls>>
    /\ UNCHANGED <<arcs, STRINGS, GENSYM_COUNT, protoVars, gcVars>>

\* really_intern: the copy, guard.insert, and the return of self.
ReallyInternInsert(t) ==
    /\ threads[t].pc = "insert"
    /\ threads[t].op = "really_intern"
    /\ LET r == really_intern_insert(arcs, STRINGS, threads[t].self)
       IN  /\ arcs' = r.arcs
           /\ STRINGS' = r.strings
           /\ Return(t, r.ret)
    /\ guard' = NoThread
    /\ UNCHANGED <<GENSYM_COUNT, protoVars, gcVars>>

\* is_interned: the lookup, the pointer comparison, the return.
IsInternedLookup(t) ==
    /\ threads[t].pc = "lookup"
    /\ threads[t].op = "is_interned"
    /\ Return(t, is_interned(arcs, STRINGS, threads[t].self))
    /\ guard' = NoThread
    /\ UNCHANGED <<arcs, STRINGS, GENSYM_COUNT, protoVars, gcVars>>

NextStrings ==
    \/ \E t \in Threads : Gensym(t)
    \/ \E t \in Threads, text \in Texts : Get(t, text)
    \/ \E t \in Threads, self \in Handles : ReallyIntern(t, self)
    \/ \E t \in Threads, self \in Handles : IsInterned(t, self)
    \/ \E t \in Threads : Lock(t)
    \/ \E t \in Threads : GetLookup(t)
    \/ \E t \in Threads : GetInsert(t)
    \/ \E t \in Threads : ReallyInternLookup(t)
    \/ \E t \in Threads : ReallyInternInsert(t)
    \/ \E t \in Threads : IsInternedLookup(t)

SpecStrings == Init /\ [][NextStrings]_vars

\* The returned calls of an operation.
CallsOf(op) == {c \in Range(calls) : c.op = op}

(* ------------------------------ C11 ------------------------------------ *)
\* The registry holds no two entries of equal content.
NoEqualEntries == \A x, y \in STRINGS : arcs[x] = arcs[y] => x = y

\* All get(text) calls of one text returned the same identity.
SameIdentity ==
    \A c1, c2 \in CallsOf("get") : c1.text = c2.text => c1.ret = c2.ret

\* C11: every step keeps the entries the registry has (none is removed or
\* replaced), keeps the registry free of two entries with equal content,
\* and keeps all get(text) calls of a text, from whatever thread and
\* interleaved with gensym / really_intern / is_interned calls, at one
\* identity.
C11_InterningIdentity ==
    [][/\ STRINGS \subseteq STRINGS'
       /\ arcs = SubSeq(arcs', 1, Len(arcs))
       /\ NoEqualEntries'
       /\ SameIdentity']_vars

\* A get(text) has returned the entry it inserted, a gensym has returned,
\* and two threads are inside get() of that same text together: one holds
\* the guard after its lookup, the other waits for the lock.
C11_Witness ==
    \E c \in CallsOf("get"), t1, t2 \in Threads :
        /\ c.ret \in STRINGS
        /\ CallsOf("gensym") # {}
        /\ t1 # t2
        /\ threads[t1].op = "get" /\ threads[t1].text = c.text
        /\ threads[t2].op = "get" /\ threads[t2].text = c.text
        /\ threads[t1].pc = "lookup" /\ guard = t1
        /\ threads[t2].pc = "lock"

(* ------------------------------ C12 ------------------------------------ *)
\* C12: any two gensym() calls returned handles of distinct identities,
\* and a handle gensym() returned is not interned in any state (is_interned
\* false, is_gensym true) and no returned is_interned call reported it
\* interned, whatever was interned or promoted before or after.
C12_GensymFreshness ==
    /\ \A i, j \in 1..Len(calls) :
           (i # j /\ calls[i].op = "gensym" /\ calls[j].op = "gensym")
               => calls[i].ret # calls[j].ret
    /\ \A c \in CallsOf("gensym") :
           /\ ~is_interned(arcs, STRINGS, c.ret)
           /\ is_gensym(arcs, STRINGS, c.ret)
           /\ \A q \in CallsOf("is_interned") : q.self = c.ret => q.ret = FALSE

\* Two gensyms; the first was promoted, so that the registry now holds its
\* text, and is_interned was then asked of it.
C12_Witness ==
    \E i, j, k, l \in 1..Len(calls) :
        /\ i < j /\ j < k /\ k < l
        /\ calls[i].op = "gensym"
        /\ calls[j].op = "gensym"
        /\ calls[k].op = "really_intern" /\ calls[k].self = calls[i].ret
        /\ calls[l].op = "is_interned" /\ calls[l].self = calls[i].ret
        /\ HashSet_get(arcs, STRINGS, as_str(arcs, calls[i].ret)) # NoArc

(* ------------------------------ C13 ------------------------------------ *)
\* C13: the handle r a really_intern(h) call returned has the text of h,
\* is interned (the registry keeps its entries, so from the return on), and
\* every get of that text returning after it returned the identity r.
C13_PromoteRegistered ==
    \A k \in 1..Len(calls) :
        calls[k].op = "really_intern"
            => /\ as_str(arcs, calls[k].ret) = as_str(arcs, calls[k].self)
               /\ is_interned(arcs, STRINGS, calls[k].ret)
               /\ \A l \in (k + 1)..Len(calls) :
                      (calls[l].op = "get" /\ calls[l].text = as_str(arcs, calls[k].self))
                          => calls[l].ret = calls[k].ret

(* ------------------------------ C14 ------------------------------------ *)
ShypeRefs == 1..Len(shypes)

\* The variant of a shype with its payload.
Variant(shype) ==
    [variant |-> shype.variant, name |-> shype.name, slot |-> shype.slot,
     proto |-> shype.proto, target |-> shype.target]

\* seq1 is the end of seq2.
IsSuffix(seq1, seq2) ==
    /\ Len(seq1) <= Len(seq2)
    /\ seq1 = SubSeq(seq2, Len(seq2) - Len(seq1) + 1, Len(seq2))

\* C14 as stated: no step changes the variant of a shype, nor a parent,
\* first_child or next_sibling that holds a value.
C14_WriteOnce ==
    [][/\ Len(shypes') >= Len(shypes)
       /\ \A s \in ShypeRefs :
              /\ Variant(shypes'[s]) = Variant(shypes[s])
              /\ shypes[s].parent # NoRef => shypes'[s].parent = shypes[s].parent
              /\ shypes[s].first_child # NoRef
                     => shypes'[s].first_child = shypes[s].first_child
              /\ shypes[s].next_sibling # NoRef
                     => shypes'[s].next_sibling = shypes[s].next_sibling]_vars

\* C14, amended: no step removes a shype or changes the variant, the
\* parent or the next_sibling of a shype of the heap (the two links are
\* written in the step that allocates the shype); first_child is rewritten
\* by every step that links a child: the children of before stay, in their
\* order, behind the shypes the step has allocated.
C14_Linkage ==
    [][/\ Len(shypes') >= Len(shypes)
       /\ \A s \in ShypeRefs :
              /\ Variant(shypes'[s]) = Variant(shypes[s])
              /\ shypes'[s].parent = shypes[s].parent
              /\ shypes'[s].next_sibling = shypes[s].next_sibling
              /\ LET before == children_iter(shypes, s)
                     after == children_iter(shypes', s)
                 IN  /\ IsSuffix(before, after)
                     /\ \A i \in 1..(Len(after) - Len(before)) :
                            after[i] > Len(shypes)]_vars

\* A shype whose first_child has been rewritten: it has two children.
C14_Witness ==
    \E s \in ShypeRefs :
        /\ shypes[s].first_child # NoRef
        /\ shypes[shypes[s].first_child].next_sibling # NoRef
        /\ shypes[shypes[s].first_child].parent = s

(* ------------------------- direct calls -------------------------------- *)
\* The functions below new_object, set_property and set_prototype, called
\* by themselves with any argument: allocate, get_slot and set_slot of an
\* ObjectRef, add_child and become_prototype_of of a shype.

\* Mutant: the assertion comes after the allocation.
ObjectRef_allocate_Late(sh, objs, shype) ==
    [objects |-> Append(objs, Object(shype)), ok |-> sh[shype].variant = "Root"]

\* ObjectRef::allocate
ObjectRef_allocate(sh, objs, shype) ==
    IF sh[shype].variant # "Root"
    THEN [objects |-> objs, ok |-> FALSE]
    ELSE [objects |-> Append(objs, Object(shype)), ok |-> TRUE]

\* ObjectRef::get_slot
ObjectRef_get_slot(objs, o, slotno) ==
    IF ~(slotno < num_slots(objs[o]))
    THEN [ret |-> BoolFalse, ok |-> FALSE]
    ELSE [ret |-> get_slot(objs[o], slotno), ok |-> TRUE]

\* ObjectRef::set_slot
ObjectRef_set_slot(objs, o, slotno, val) ==
    IF ~(slotno < num_slots(objs[o]))
    THEN [objects |-> objs, ok |-> FALSE]
    ELSE [objects |-> [objs EXCEPT ![o] = set_slot(@, slotno, val)], ok |-> TRUE]

\* SpecificShypeView::add_child, its assertions included.
Shype_add_child(sh, s, child) ==
    IF ~add_child_ok(sh, child)
    THEN [shypes |-> sh, ok |-> FALSE]
    ELSE [shypes |-> add_child(sh, s, child), ok |-> TRUE]

\* The slot numbers passed: those of an object, and one past the most an
\* object can have.
SlotNos == 0..NumNames

Allocate(s) ==
    /\ ~panic
    /\ NumOps < MaxDirectOps
    /\ LET r == ObjectRef_allocate(shypes, objects, s)
       IN  /\ objects' = r.objects
           /\ hist' = IF r.ok THEN Append(hist, <<>>) ELSE hist
           /\ panic' = ~r.ok
    /\ UNCHANGED <<shypes, stringVars, gcVars>>

GetSlot(o, slotno) ==
    /\ ~panic
    /\ panic' = ~ObjectRef_get_slot(objects, o, slotno).ok
    /\ UNCHANGED <<shypes, objects, hist, stringVars, gcVars>>

SetSlot(o, slotno, val) ==
    /\ ~panic
    /\ LET r == ObjectRef_set_slot(objects, o, slotno, val)
       IN  /\ objects' = r.objects
           /\ panic' = ~r.ok
    /\ UNCHANGED <<shypes, hist, stringVars, gcVars>>

\* add_child with a shype of the heap as the child; every shype but the
\* root has been linked when it was allocated.
AddChild(s, child) ==
    /\ ~panic
    /\ LET r == Shype_add_child(shypes, s, child)
       IN  /\ shypes' = r.shypes
           /\ panic' = ~r.ok
    /\ UNCHANGED <<objects, hist, stringVars, gcVars>>

\* become_prototype_of of the view of shype s; no object is moved.
BecomePrototypeOf(s, target_shype) ==
    /\ ~panic
    /\ Len(shypes) < MaxShypes
    /\ LET r == Shype_become_prototype_of(shypes, s, target_shype)
       IN  /\ shypes' = r.shypes
           /\ panic' = ~r.ok
    /\ UNCHANGED <<objects, hist, stringVars, gcVars>>

NextDirect ==
    \/ NumOps < MaxDirectOps /\ Next
    \/ \E s \in ShypeRefs : Allocate(s)
    \/ \E o \in ObjectRefs, slotno \in SlotNos : GetSlot(o, slotno)
    \/ \E o \in ObjectRefs, slotno \in SlotNos, val \in Values : SetSlot(o, slotno, val)
    \/ \E s \in ShypeRefs, child \in ShypeRefs \ {RootRef} : AddChild(s, child)
    \/ \E s \in ShypeRefs, target_shype \in ShypeRefs : BecomePrototypeOf(s, target_shype)

SpecDirect == Init /\ [][NextDirect]_vars

(* ------------------------------ C15 ------------------------------------ *)
\* The step ends in the abort and leaves every shype and every object (its
\* shype reference and its slots) as it was.
AbortsUnchanged == panic' /\ shypes' = shypes /\ objects' = objects

\* C15: allocate at a shype that is not the root shype, get_slot and
\* set_slot with a slot number that is not below the number of slots, and
\* add_child of a child that has a parent or a sibling abort with no shype
\* and no object modified; and no step that aborts has modified one.
C15_AbortBeforeMutation ==
    [][/\ \A s \in ShypeRefs :
              (shypes[s].variant # "Root" /\ Allocate(s)) => AbortsUnchanged
       /\ \A o \in ObjectRefs, slotno \in SlotNos :
              (slotno >= num_slots(objects[o]) /\ GetSlot(o, slotno))
                  => AbortsUnchanged
       /\ \A o \in ObjectRefs, slotno \in SlotNos, val \in Values :
              (slotno >= num_slots(objects[o]) /\ SetSlot(o, slotno, val))
                  => AbortsUnchanged
       /\ \A s \in ShypeRefs, child \in ShypeRefs \ {RootRef} :
              ((shypes[child].parent # NoRef \/ shypes[child].next_sibling # NoRef)
                   /\ AddChild(s, child))
                  => AbortsUnchanged
       /\ (~panic /\ panic') => (shypes' = shypes /\ objects' = objects)]_vars

\* An abort, with an object that holds a slot and a shype that is not the
\* root in the heap: each of the four calls had an argument to abort on.
C15_Witness ==
    /\ panic
    /\ Len(shypes) > 1
    /\ \E o \in ObjectRefs : num_slots(objects[o]) > 0

(* ---------------- the garbage-collected heap: actions ------------------- *)
\* The values the program can pass: Null, and a Pair of a Ref it holds.
HeldValues == {Null} \cup Pinned(pins)

\* hs.alloc(pair): an allocation not in use is taken and a Ref returned.
Alloc(c, head, tail) ==
    /\ ~cells[c].allocated
    /\ cells' = [cells EXCEPT ![c] = Pair(head, tail)]
    /\ pins' = [pins EXCEPT ![c] = 1]
    /\ swept' = {}
    /\ UNCHANGED <<protoVars, stringVars>>

\* alloc_null_pair(hs)
AllocNullPair(c) == Alloc(c, Null, Null)

\* alloc_pair(hs, head, tail)
AllocPair(c, head, tail) == Alloc(c, head, tail)

\* obj.set_head(value)
SetHead(c, value) ==
    /\ pins[c] > 0
    /\ cells' = [cells EXCEPT ![c].head = value]
    /\ swept' = {}
    /\ UNCHANGED <<pins, protoVars, stringVars>>

\* obj.set_tail(value)
SetTail(c, value) ==
    /\ pins[c] > 0
    /\ cells' = [cells EXCEPT ![c].tail = value]
    /\ swept' = {}
    /\ UNCHANGED <<pins, protoVars, stringVars>>

\* obj.head() / obj.tail() returning a Pair: a new Ref to the pair read.
ReadField(c, field) ==
    /\ pins[c] > 0
    /\ field # Null
    /\ pins[field] < MaxPins
    /\ pins' = [pins EXCEPT ![field] = @ + 1]
    /\ swept' = {}
    /\ UNCHANGED <<cells, protoVars, stringVars>>

ReadHead(c) == ReadField(c, cells[c].head)

ReadTail(c) == ReadField(c, cells[c].tail)

\* obj.clone(): one more Ref to the same allocation.
Clone(c) ==
    /\ pins[c] > 0
    /\ pins[c] < MaxPins
    /\ pins' = [pins EXCEPT ![c] = @ + 1]
    /\ swept' = {}
    /\ UNCHANGED <<cells, protoVars, stringVars>>

\* A Ref is dropped.
Drop(c) ==
    /\ pins[c] > 0
    /\ pins' = [pins EXCEPT ![c] = @ - 1]
    /\ swept' = {}
    /\ UNCHANGED <<cells, protoVars, stringVars>>

\* hs.force_gc()
ForceGc ==
    /\ cells' = force_gc(cells, pins)
    /\ swept' = {c \in CellRefs : cells[c].allocated /\ ~cells'[c].allocated}
    /\ UNCHANGED <<pins, protoVars, stringVars>>

NextGc ==
    \/ \E c \in CellRefs : AllocNullPair(c)
    \/ \E c \in CellRefs, head, tail \in HeldValues : AllocPair(c, head, tail)
    \/ \E c \in CellRefs, value \in HeldValues : SetHead(c, value)
    \/ \E c \in CellRefs, value \in HeldValues : SetTail(c, value)
    \/ \E c \in CellRefs : ReadHead(c)
    \/ \E c \in CellRefs : ReadTail(c)
    \/ \E c \in CellRefs : Clone(c)
    \/ \E c \in CellRefs : Drop(c)
    \/ ForceGc

SpecGc == Init /\ [][NextGc]_vars

(* ------------------------------ C16 ------------------------------------ *)
\* The allocations reachable from the Refs the program holds.
RECURSIVE ReachableFrom(_, _)
ReachableFrom(cs, set) ==
    LET more == set \cup {cs[c].head : c \in set} \cup {cs[c].tail : c \in set}
        next == more \ {Null}
    IN  IF next = set THEN set ELSE ReachableFrom(cs, next)

Reachable == ReachableFrom(cells, Pinned(pins))

\* c is on a cycle of references: it is reached from one of its fields.
OnCycle(c) == c \in ReachableFrom(cells, {cells[c].head, cells[c].tail} \ {Null})

\* C16: a forced collection leaves every allocation reachable from a Ref
\* in use and with the head and the tail it had, cycles or not; and what
\* is reachable from a Ref is in use in every state.
C16_ReachablePreserved ==
    [][/\ ForceGc => \A c \in Reachable : cells'[c] = cells[c]
       /\ \A c \in Reachable' : cells'[c].allocated]_vars

\* A collection has just freed an allocation and kept two that point at
\* each other, one of them with no Ref to it.
C16_Witness ==
    \E c1, c2 \in CellRefs :
        /\ swept # {}
        /\ c1 # c2
        /\ cells[c1].allocated /\ cells[c2].allocated
        /\ cells[c1].head = c2 /\ cells[c1].tail = c2
        /\ cells[c2].head = c1 /\ cells[c2].tail = c1
        /\ pins[c1] > 0 /\ pins[c2] = 0
        /\ OnCycle(c1)

(* ------------------------------ C17 ------------------------------------ *)
\* The children of shype s of the given variant.
ChildrenOfVariant(s, variant) ==
    {c \in Range(children_iter(shypes, s)) : shypes[c].variant = variant}

\* C17: set_prototype of a shype returns the SetPrototype(proto) child the
\* shype has, so that no shype has two SetPrototype children of the same
\* prototype object.
C17_SetProtoChildReuse ==
    \A s \in ShypeRefs :
        \A c1, c2 \in ChildrenOfVariant(s, "SetPrototype") :
            shypes[c1].proto = shypes[c2].proto => c1 = c2

(* ------------------------------ C18 ------------------------------------ *)
\* C18: become_prototype_of of a shype returns the BecomePrototype(target)
\* child the shype has and creates one only when it has none, so that no
\* shype has two BecomePrototype children of the same target shype.
C18_BecomeProtoDedup ==
    \A s \in ShypeRefs :
        \A c1, c2 \in ChildrenOfVariant(s, "BecomePrototype") :
            shypes[c1].target = shypes[c2].target => c1 = c2

(* ------------------------------ C19 ------------------------------------ *)
\* The step is a set_prototype(proto) call on object o of the heap: no
\* other step adds that call to the history of o.
IsSetPrototype(o, proto) == hist'[o] = Append(hist[o], ProtoCall(proto))

\* The shypes the step has allocated.
NewShypes == (Len(shypes) + 1)..Len(shypes')

\* C19: a set_prototype(obj, proto) call made when get_prototype(obj) is
\* proto already reports no change, allocates no SetPrototype shype and
\* leaves obj at the shype it was at, for every obj and proto of the heap,
\* proto = obj included.
C19_NoOpSetPrototype ==
    [][\A o, proto \in ObjectRefs :
           (IsSetPrototype(o, proto) /\ GetPrototype(o) = proto)
               => /\ ~Shype_set_prototype(shypes, ShypeOf(o), proto).set
                  /\ \A s \in NewShypes : shypes'[s].variant # "SetPrototype"
                  /\ objects'[o].shype = objects[o].shype]_vars

(* ------------------------------ C20 ------------------------------------ *)
\* The step is a new_object(Some(proto)) that allocates object o.
IsNewObjectWithProto(o, proto) ==
    /\ o = Len(objects) + 1
    /\ Len(objects') = o
    /\ hist'[o] = <<ProtoCall(proto)>>

\* The BecomePrototype shype nearest to s on its root path, NoRef if none.
NearestBecomeProto(sh, s) ==
    first_of_variant(sh, root_path_iter(sh, s), "BecomePrototype")

\* The mirror of the call: the nearest BecomePrototype shype of proto
\* has the shype of o as its target.
Mirrors(sh, objs, o, proto) ==
    LET bp == NearestBecomeProto(sh, objs[proto].shype)
    IN  bp # NoRef /\ sh[bp].target = objs[o].shype

\* C20: after a set_prototype(obj, proto) call, by itself or as part of
\* new_object, with obj and proto two objects, the BecomePrototype shype
\* nearest to proto's shype on its root path has as target the shype obj
\* is at after the call, whether the call has moved obj or not.
C20_PrototypeMirror ==
    [][\A proto \in ObjectRefs, o \in 1..(Len(objects) + 1) :
           (/\ o # proto
            /\ IF o \in ObjectRefs THEN IsSetPrototype(o, proto)
                                   ELSE IsNewObjectWithProto(o, proto))
               => Mirrors(shypes', objects', o, proto)]_vars

\* Both cases have happened to one object: o was moved by its first
\* set_prototype(proto), was given a property, and was then given the
\* prototype it had already; proto mirrors the AddProperty shype o stayed
\* at.
C20_Witness ==
    \E o, proto \in ObjectRefs :
        /\ o # proto
        /\ Len(hist[o]) >= 3
        /\ hist[o][1] = ProtoCall(proto)
        /\ hist[o][2].op = "set_property"
        /\ hist[o][3] = ProtoCall(proto)
        /\ Len(hist[o]) = 3
        /\ shypes[ShypeOf(o)].variant = "AddProperty"
        /\ Mirrors(shypes, objects, o, proto)

(* ------------------------------ C21 ------------------------------------ *)
\* Object x has after the step the own property names, the slots and (when
\* asked) the prototype it had before it.
KeepsProperties(x) ==
    /\ Object_own_property_names(shypes', objects', x) = OwnPropertyNames(x)
    /\ objects'[x].prop_slots = objects[x].prop_slots

KeepsPrototype(x) == Object_get_prototype(shypes', objects', x) = GetPrototype(x)

\* C21: a set_prototype(obj, proto) call, by itself or as part of
\* new_object, leaves the own property names and the slots of every object
\* as they were, leaves get_prototype of every object but obj as it was,
\* and changes no object but obj and proto, and of these the shype only.
C21_SetPrototypeFrame ==
    [][\A proto \in ObjectRefs, o \in 1..(Len(objects) + 1) :
           (IF o \in ObjectRefs THEN IsSetPrototype(o, proto)
                                ELSE IsNewObjectWithProto(o, proto))
               => /\ Len(objects') = Len(objects) + (IF o \in ObjectRefs THEN 0 ELSE 1)
                  /\ \A x \in ObjectRefs :
                         /\ KeepsProperties(x)
                         /\ x # o => KeepsPrototype(x)
                         /\ x \notin {o, proto} => objects'[x] = objects[x]
                  /\ o \notin ObjectRefs => objects'[o].prop_slots = <<>>]_vars

\* The last call on o was set_prototype(proto): it has moved o to a
\* SetPrototype shype and proto to a BecomePrototype shype, and both hold a
\* property with a value written before the call.
C21_Witness ==
    \E o, proto \in ObjectRefs, n1, n2 \in Names :
        /\ o # proto
        /\ hist[o] = <<PropCall(n1), ProtoCall(proto)>>
        /\ hist[proto] = <<PropCall(n2)>>
        /\ shypes[ShypeOf(o)].variant = "SetPrototype"
        /\ shypes[ShypeOf(proto)].variant = "BecomePrototype"
        /\ OwnPropertyNames(o) = <<n1>>
        /\ OwnPropertyNames(proto) = <<n2>>
        /\ GetProperty(o, n1) # BoolFalse
        /\ GetProperty(proto, n2) # BoolFalse

(* ------------------------------ C22 ------------------------------------ *)
\* ShypeParentIter run for at most n steps from s: the shype it is at then,
\* NoRef when it has ended before.
RECURSIVE ParentAt(_, _, _)
ParentAt(sh, s, n) ==
    IF n = 0 \/ s = NoRef THEN s ELSE ParentAt(sh, sh[s].parent, n - 1)

\* ShypeNextSiblingIter run for at most n steps from s: what it has
\* produced.
RECURSIVE SiblingsUpTo(_, _, _)
SiblingsUpTo(sh, s, n) ==
    IF n = 0 \/ s = NoRef THEN <<>>
    ELSE <<s>> \o SiblingsUpTo(sh, sh[s].next_sibling, n - 1)

\* The parent links from s end, within as many steps as there are shypes,
\* at a shype of variant Root.
ReachesRoot(sh, s) ==
    \E n \in 0..(Len(sh) - 1) :
        LET a == ParentAt(sh, s, n)
        IN  a # NoRef /\ sh[a].parent = NoRef /\ sh[a].variant = "Root"

\* children(p) ends, and is the shypes whose parent is p, each once, the
\* one allocated (and linked) last first.
ChildrenWellFormed(sh, p) ==
    LET ch == SiblingsUpTo(sh, sh[p].first_child, Len(sh) + 1)
    IN  /\ Len(ch) <= Len(sh)
        /\ Range(ch) = {c \in 1..Len(sh) : sh[c].parent = p}
        /\ \A i, j \in 1..Len(ch) : i < j => ch[i] > ch[j]

\* C22: the parent links from the shype of every object end at a Root
\* shype, only Root shypes have no parent, and the children of every shype
\* are the shypes whose parent it is, each once, most recently linked
\* first.
C22_TreeWellFormed ==
    /\ \A o \in ObjectRefs : ReachesRoot(shypes, ShypeOf(o))
    /\ \A s \in ShypeRefs : shypes[s].parent = NoRef => shypes[s].variant = "Root"
    /\ \A p \in ShypeRefs : ChildrenWellFormed(shypes, p)

\* An object two links below the root, at a shype with two children, and
\* the root with three.
C22_Witness ==
    \E o \in ObjectRefs :
        LET s == ShypeOf(o)
        IN  /\ shypes[s].parent # NoRef
            /\ shypes[shypes[s].parent].parent # NoRef
            /\ Len(children_iter(shypes, shypes[s].parent)) >= 2
            /\ Len(children_iter(shypes, RootRef)) >= 3

(* ------------------------------ C23 ------------------------------------ *)
\* Object o is after the step at the shype it was at, or at a child of it.
StaysOrDescends(o) ==
    \/ objects'[o].shype = objects[o].shype
    \/ shypes'[objects'[o].shype].parent = objects[o].shype

\* C23: every operation (set_property, set_prototype, new_object with a
\* prototype) leaves every object of the heap, the one it is called on and
\* the one it names as prototype included, at its shype or at a direct
\* child of it.
C23_ShapesDescend ==
    [][\A o \in ObjectRefs : StaysOrDescends(o)]_vars

\* Object o has been moved by each of the three: by its set_property to an
\* AddProperty shype, by its set_prototype to a SetPrototype shype below
\* it, and as the prototype of another object to a BecomePrototype shype
\* below that.
C23_Witness ==
    \E o, o2 \in ObjectRefs, name \in Names :
        LET s == ShypeOf(o)
            p == shypes[s].parent
            pp == shypes[p].parent
        IN  /\ o # o2
            /\ hist[o] = <<PropCall(name), ProtoCall(o2)>>
            /\ ProtoCall(o) \in Range(hist[o2])
            /\ shypes[s].variant = "BecomePrototype"
            /\ p # NoRef /\ shypes[p].variant = "SetPrototype"
            /\ pp # NoRef /\ shypes[pp].variant = "AddProperty"
            /\ shypes[pp].parent = RootRef

(* ------------------------------ C24 ------------------------------------ *)
\* The assertion of get_slot holds for the slot an own-property lookup of
\* name on object o returns: get_property makes that lookup and that
\* get_slot on the objects of a proto chain.
LookupSlotInRange(o, name) ==
    LET shype == Shype_get_own_property(shypes, ShypeOf(o), name)
    IN  shype # NoRef => shypes[shype].slot < num_slots(objects[o])

\* Every assertion of a new_object, set_property or set_prototype call
\* made in this state would hold.
NoCallAborts ==
    /\ \A mb_proto \in {NoRef} \cup ObjectRefs :
           Shype_new_object(shypes, objects, RootRef, mb_proto).ok
    /\ \A o \in ObjectRefs, name \in Names, value \in Values :
           Object_set_property(shypes, objects, o, name, value).ok
    /\ \A o \in ObjectRefs, proto \in ObjectRefs :
           Object_set_prototype(shypes, objects, o, proto).ok

\* C24: no call made so far has failed an assertion, none that can be made
\* now would (the slot of a property that is added is the slot count, the
\* shype returned is a child of the object's, the slot of a property that
\* exists is below the slot count, a shype given to add_child is unlinked),
\* and every slot an own-property lookup returns is below the slot count
\* of the object.
C24_AssertionValidity ==
    /\ ~panic
    /\ NoCallAborts
    /\ \A o \in ObjectRefs, name \in Names : LookupSlotInRange(o, name)

\* Two objects at one AddProperty shype, the second through the child the
\* first has created, each with its slot; the first has written the
\* property a second time, and is the prototype of the second.
C24_Witness ==
    \E o1, o2 \in ObjectRefs, name \in Names :
        /\ o1 # o2
        /\ ~panic
        /\ hist[o1] = <<PropCall(name), PropCall(name)>>
        /\ hist[o2] = <<PropCall(name), ProtoCall(o1)>>
        /\ shypes[shypes[ShypeOf(o1)].parent].variant = "AddProperty"
        /\ shypes[ShypeOf(o2)].parent = shypes[ShypeOf(o1)].parent
        /\ num_slots(objects[o1]) = 1
        /\ num_slots(objects[o2]) = 1

====
